---- MODULE Spec2Model ----
(***************************************************************************)
(* Model of SpinFlyer (startup/55-flyer-demo.py): the command interface    *)
(* set() with its run_and_wait threads, the kickoff/complete/collect       *)
(* protocol and the _spin_sequence executor, together with the motor, the  *)
(* detector's HDF5 plugin signals and the busy record they drive.          *)
(***************************************************************************)
EXTENDS Integers, Sequences, FiniteSets, Bags, TLC

\* ------------------------------------------------------------------ bounds
\* what the callers may start: every call of set, kickoff, complete and
\* collect counts one, and a call of set or kickoff counts one more for the
\* thread or the executor run it starts
MaxCalls == 5

\* ------------------------------------------------- constructor arguments
\* SpinFlyer(..., pre_start, pos_start, pos_finish): integer-valued inputs
pre_start == -1
pos_start == -2
pos_finish == 2
\* motor position when the controller is constructed
InitPositions == {0}
\* the values self.num_spins is configured with (__init__ sets 1)
NumSpins == {1, 2}
\* pre_fly(max_frames=10000)
max_frames == 10000

\* ------------------------------------------------------- command tokens
\* a token is the sequence of the characters of str(value)
UpperChars == <<"A","B","C","D","E","F","G","H","I","J","K","L","M",
                "N","O","P","Q","R","S","T","U","V","W","X","Y","Z">>
LowerChars == <<"a","b","c","d","e","f","g","h","i","j","k","l","m",
                "n","o","p","q","r","s","t","u","v","w","x","y","z">>

\* str.lower() on one character
LowerChar(c) ==
    IF \E i \in 1..26 : UpperChars[i] = c
    THEN LowerChars[CHOOSE i \in 1..26 : UpperChars[i] = c]
    ELSE c

fly_token == <<"f","l","y">>
taxi_token == <<"t","a","x","i">>
return_token == <<"r","e","t","u","r","n">>

\* the tokens callers pass to set()
Tokens == { <<"T","a","x","i">>, <<"F","L","Y">>, <<"R","e","t","u","r","n">>,
            <<"S","p","i","n">> }

\* the token _spin_sequence passes to set()
ReturnArg == <<"R","e","t","u","r","n">>

\* str.lower() character by character
lower_chars(s) == [i \in 1..Len(s) |-> LowerChar(s[i])]

\* str.lower() of the tokens in use, computed once
LowerOfTokens == [s \in Tokens \cup {ReturnArg} |-> lower_chars(s)]

\* str(value).lower()
lower(s) == IF s \in DOMAIN LowerOfTokens THEN LowerOfTokens[s]
            ELSE lower_chars(s)

\* str(value).lower() in ("fly", "taxi", "return")
valid_token(value) == lower(value) \in {fly_token, taxi_token, return_token}

\* ---------------------------------------------------------------- state
VARIABLES
    busy,             \* self.busy.value
    motor,            \* self.motor: position, and the moves in progress
    det,              \* self.detector: cam.array_counter and the hdf1 signals
    return_position,  \* self.return_position
    num_spins,        \* self.num_spins
    cs,               \* self._completion_status: "None", "pending" or "done"
    data,             \* self._data
    threads,          \* the bag of live run_and_wait threads started by set()
    ex,               \* the _spin_sequence run started by kickoff()
    callerpc,         \* where the caller of kickoff/complete/collect is
    completed,        \* complete() has returned the stored status
    cyc,              \* progress of an awaited Taxi, Fly, Return cycle
    ret,              \* the call that returned in the last step, if any
    ncalls,           \* what the calls made so far count for
    runs,             \* the number of kickoff() calls accepted so far
    kst,              \* per status kickoff() has created: its _finished calls
    trace,            \* the device commands issued for the current set()
    setcall,          \* the accepted set() that has not returned yet
    gen               \* the generator the last collect() returned, which is
                      \* the one the caller goes on with

vars == <<busy, motor, det, return_position, num_spins, cs, data, threads,
          ex, callerpc, completed, cyc, ret, ncalls, runs, kst,
          trace, setcall, gen>>

\* _spin_sequence not running
IdleEx == [pc |-> "idle", spin_num |-> 0, target |-> 0]

NoRet == [op |-> "none", value |-> <<>>, result |-> "none",
          future |-> "None", records |-> <<>>]

NoCycle == [stage |-> 0, start |-> 0]

\* no caller is inside set()
NoSet == [value |-> <<>>, st |-> "none"]

\* no generator of collect() is waiting to be resumed. Of a generator: pc
\* is where its body stands, buf the deque it iterates and i the number of
\* records it has yielded; st is the stored status at the time collect()
\* was called, after_complete whether complete() had returned by then
NoGen == [pc |-> "none", buf |-> <<>>, i |-> 0, st |-> "None",
          after_complete |-> FALSE]

\* --------------------------------------------------------------- motor
\* motor.moving
moving == motor.movers > 0

\* motor.move(position) is entered: the motor starts towards position
move_begin(m) == [m EXCEPT !.movers = @ + 1]

\* motor.move(position) returns: the motor is at position
move_end(m, position) == [m EXCEPT !.position = position, !.movers = @ - 1]

\* taxi(): position = self.pos_start + self.pre_start
taxi_position == pos_start + pre_start

\* ------------------------------------------------------------- detector
\* one put() to a detector signal
det_put(d, signal, v) == [d EXCEPT ![signal] = v]

\* pre_fly() starting the capture before the plugin is set up
pre_fly_steps_capture_first == << <<"capture", "Capture">>,
                                  <<"array_counter", 0>>,
                                  <<"enable", "Enable">>,
                                  <<"file_write_mode", "Capture">>,
                                  <<"num_capture", max_frames>> >>

\* the puts of pre_fly(), in program order
pre_fly_steps == << <<"array_counter", 0>>,
                    <<"enable", "Enable">>,
                    <<"file_write_mode", "Capture">>,
                    <<"num_capture", max_frames>>,
                    <<"capture", "Capture">> >>

\* the puts of post_fly(), in program order
post_fly_steps == << <<"capture", "Done">>,
                     <<"write_file", 1>>,
                     <<"file_write_mode", "Single">>,
                     <<"num_capture", 1>>,
                     <<"enable", "Disable">> >>

RECURSIVE apply_puts(_, _, _)
\* the puts steps[i..] applied to d in order
apply_puts(d, steps, i) ==
    IF i > Len(steps) THEN d
    ELSE apply_puts(det_put(d, steps[i][1], steps[i][2]), steps, i + 1)

\* det_pre_acquire(detector): arm the capture device
det_pre_acquire(d) == apply_puts(d, pre_fly_steps, 1)

\* det_post_acquire(detector): disarm the capture device
det_post_acquire(d) == apply_puts(d, post_fly_steps, 1)

\* ------------------------------------------------------------------ set
\* set() without the test of self.busy.value
set_check_ignores_busy(value, b) ==
    IF ~valid_token(value) THEN "ValueError" ELSE "ok"

\* set() testing self.busy.value before the token
set_check_busy_first(value, b) ==
    IF b THEN "RuntimeError"
    ELSE IF ~valid_token(value) THEN "ValueError"
    ELSE "ok"

\* the checks of set(): what the call raises, or "ok"
set_check(value, b) ==
    IF ~valid_token(value) THEN "ValueError"
    ELSE IF b THEN "RuntimeError"
    ELSE "ok"

\* threading.Thread(target=run_and_wait).start(): the threads with the new
\* one; waited tells that its creator has not returned from set() yet, k
\* counts the puts the thread has done of the pre_fly() or post_fly() it is in
start_thread(ts, value, waited) ==
    ts (+) SetToBag({[pc |-> "start", value |-> value, target |-> 0,
                      k |-> 0, waited |-> waited]})

\* the live threads
Live == BagToSet(threads)

\* nothing is running or pending on the controller
quiescent ==
    /\ threads = EmptyBag
    /\ setcall = NoSet
    /\ ex.pc \in {"idle", "failed"}
    /\ callerpc = "idle"
    /\ ~moving

\* the cycle bookkeeping after the call set(value)
next_cycle(value) ==
    IF set_check(value, busy) # "ok" THEN cyc
    ELSE IF ~quiescent THEN NoCycle
    ELSE IF lower(value) = taxi_token
         THEN [stage |-> 1, start |-> motor.position]
    ELSE IF lower(value) = fly_token /\ cyc.stage = 1
         THEN [cyc EXCEPT !.stage = 2]
    ELSE IF lower(value) = return_token /\ cyc.stage = 2
         THEN [cyc EXCEPT !.stage = 3]
    ELSE NoCycle

\* a caller calls set(value): the checks, status = DeviceStatus(self) and
\* Thread(...).start(), which returns once the new thread is running; a
\* refused call returns at once. One caller is inside set() at a time.
SetCall(value) ==
    /\ setcall = NoSet
    /\ LET r == set_check(value, busy) IN
       IF r = "ok"
       THEN /\ threads' = start_thread(threads, value, TRUE)
            /\ setcall' = [value |-> value, st |-> "pending"]
            /\ ret' = NoRet
       ELSE /\ ret' = [NoRet EXCEPT !.op = "set", !.value = value, !.result = r]
            /\ UNCHANGED <<threads, setcall>>
    /\ UNCHANGED <<busy, motor, det, return_position, num_spins, cs, data, ex,
                   callerpc, completed, runs>>
    /\ UNCHANGED kst
    /\ UNCHANGED gen

\* the threads once the creator of the waited one has returned from set()
released(ts) ==
    IF \E t \in BagToSet(ts) : t.waited
    THEN LET t == CHOOSE t \in BagToSet(ts) : t.waited IN
         (ts (-) SetToBag({t})) (+) SetToBag({[t EXCEPT !.waited = FALSE]})
    ELSE ts

\* set(): return status, with run_and_wait as far as it has got meanwhile
SetReturn ==
    /\ setcall # NoSet
    /\ ret' = [NoRet EXCEPT !.op = "set", !.value = setcall.value,
                            !.result = "ok", !.future = setcall.st]
    /\ setcall' = NoSet
    /\ threads' = released(threads)
    /\ UNCHANGED <<busy, motor, det, return_position, num_spins, cs, data, ex,
                   callerpc, completed, cyc, ncalls, runs>>
    /\ UNCHANGED kst
    /\ UNCHANGED gen

\* ---------------------------------------------------------- run_and_wait
\* the threads after thread t has gone on as thread u
goes(t, u) == (threads (-) SetToBag({t})) (+) SetToBag({u})

\* run_and_wait: self.busy.put(True)
T_BusyOn(t) ==
    /\ t.pc = "start"
    /\ busy' = TRUE
    /\ threads' = goes(t, [t EXCEPT !.pc = "action"])
    /\ ret' = NoRet
    /\ UNCHANGED <<motor, det, return_position, num_spins, cs, data, ex,
                   callerpc, completed, cyc, ncalls, runs>>
    /\ UNCHANGED kst
    /\ UNCHANGED setcall
    /\ UNCHANGED gen

\* taxi() that also records the position it leaves as the return position
T_TaxiRecordsReturn(t) ==
    /\ t.pc = "action"
    /\ lower(t.value) = taxi_token
    /\ return_position' = motor.position
    /\ motor' = move_begin(motor)
    /\ threads' = goes(t, [t EXCEPT !.pc = "moving", !.target = taxi_position])
    /\ ret' = NoRet
    /\ UNCHANGED <<busy, det, num_spins, cs, data, ex,
                   callerpc, completed, cyc, ncalls, runs>>
    /\ UNCHANGED kst
    /\ UNCHANGED setcall
    /\ UNCHANGED gen

\* action(), "taxi": self.taxi() enters motor.move
T_Taxi(t) ==
    /\ t.pc = "action"
    /\ lower(t.value) = taxi_token
    /\ motor' = move_begin(motor)
    /\ threads' = goes(t, [t EXCEPT !.pc = "moving", !.target = taxi_position])
    /\ ret' = NoRet
    /\ UNCHANGED <<busy, det, return_position, num_spins, cs, data, ex,
                   callerpc, completed, cyc, ncalls, runs>>
    /\ UNCHANGED kst
    /\ UNCHANGED setcall
    /\ UNCHANGED gen

\* action(), "fly": self.pre_fly(), one put at a time
T_PreFly(t) ==
    /\ \/ t.pc = "action" /\ lower(t.value) = fly_token
       \/ t.pc = "pre_fly"
    /\ det' = det_put(det, pre_fly_steps[t.k + 1][1], pre_fly_steps[t.k + 1][2])
    /\ threads' = IF t.k + 1 = Len(pre_fly_steps)
                  THEN goes(t, [t EXCEPT !.pc = "fly", !.k = 0])
                  ELSE goes(t, [t EXCEPT !.pc = "pre_fly", !.k = @ + 1])
    /\ ret' = NoRet
    /\ UNCHANGED <<busy, motor, return_position, num_spins, cs, data, ex,
                   callerpc, completed, cyc, ncalls, runs>>
    /\ UNCHANGED kst
    /\ UNCHANGED setcall
    /\ UNCHANGED gen

\* action(), "fly": self.fly() enters motor.move
T_Fly(t) ==
    /\ t.pc = "fly"
    /\ motor' = move_begin(motor)
    /\ threads' = goes(t, [t EXCEPT !.pc = "moving", !.target = pos_finish])
    /\ ret' = NoRet
    /\ UNCHANGED <<busy, det, return_position, num_spins, cs, data, ex,
                   callerpc, completed, cyc, ncalls, runs>>
    /\ UNCHANGED kst
    /\ UNCHANGED setcall
    /\ UNCHANGED gen

\* action(), "return": self.motor.move(self.return_position) is entered
T_Return(t) ==
    /\ t.pc = "action"
    /\ lower(t.value) = return_token
    /\ motor' = move_begin(motor)
    /\ threads' = goes(t, [t EXCEPT !.pc = "moving", !.target = return_position])
    /\ ret' = NoRet
    /\ UNCHANGED <<busy, det, return_position, num_spins, cs, data, ex,
                   callerpc, completed, cyc, ncalls, runs>>
    /\ UNCHANGED kst
    /\ UNCHANGED setcall
    /\ UNCHANGED gen

\* motor.move returns to action()
T_MoveDone(t) ==
    /\ t.pc = "moving"
    /\ motor' = move_end(motor, t.target)
    /\ threads' = IF lower(t.value) = fly_token
                  THEN goes(t, [t EXCEPT !.pc = "post_fly", !.target = 0])
                  ELSE goes(t, [t EXCEPT !.pc = "busy_off", !.target = 0])
    /\ ret' = NoRet
    /\ UNCHANGED <<busy, det, return_position, num_spins, cs, data, ex,
                   callerpc, completed, cyc, ncalls, runs>>
    /\ UNCHANGED kst
    /\ UNCHANGED setcall
    /\ UNCHANGED gen

\* action(), "fly": self.post_fly(), one put at a time
T_PostFly(t) ==
    /\ t.pc = "post_fly"
    /\ det' = det_put(det, post_fly_steps[t.k + 1][1], post_fly_steps[t.k + 1][2])
    /\ threads' = IF t.k + 1 = Len(post_fly_steps)
                  THEN goes(t, [t EXCEPT !.pc = "busy_off", !.k = 0])
                  ELSE goes(t, [t EXCEPT !.k = @ + 1])
    /\ ret' = NoRet
    /\ UNCHANGED <<busy, motor, return_position, num_spins, cs, data, ex,
                   callerpc, completed, cyc, ncalls, runs>>
    /\ UNCHANGED kst
    /\ UNCHANGED setcall
    /\ UNCHANGED gen

\* run_and_wait: self.busy.put(False)
T_BusyOff(t) ==
    /\ t.pc = "busy_off"
    /\ busy' = FALSE
    /\ threads' = goes(t, [t EXCEPT !.pc = "finish"])
    /\ ret' = NoRet
    /\ UNCHANGED <<motor, det, return_position, num_spins, cs, data, ex,
                   callerpc, completed, cyc, ncalls, runs>>
    /\ UNCHANGED kst
    /\ UNCHANGED setcall
    /\ UNCHANGED gen

\* run_and_wait: status._finished(success=True), and the thread ends
T_Finished(t) ==
    /\ t.pc = "finish"
    /\ threads' = threads (-) SetToBag({t})
    /\ setcall' = IF t.waited THEN [setcall EXCEPT !.st = "done"] ELSE setcall
    /\ ret' = NoRet
    /\ UNCHANGED <<busy, motor, det, return_position, num_spins, cs, data, ex,
                   callerpc, completed, cyc, ncalls, runs>>
    /\ UNCHANGED kst
    /\ UNCHANGED gen

\* --------------------------------------------------------------- kickoff
\* kickoff() refusing only a status that is not done yet
kickoff_check_pending_only(status) ==
    IF status = "pending" THEN "RuntimeError" ELSE "ok"

\* kickoff() without the "Already kicked off." test
kickoff_check_never_refuses(status) == "ok"

\* the check of kickoff(): what the call raises, or "ok"
kickoff_check(status) == IF status # "None" THEN "RuntimeError" ELSE "ok"

\* kickoff() with self._data = deque() ahead of the check
kickoff_data_reset_first(status, d) == <<>>

\* self._data after kickoff() has got past its check or raised
kickoff_data(status, d) == IF kickoff_check(status) = "ok" THEN <<>> ELSE d

\* kickoff(): the check, self._data = deque(), and run_in_executor
Kickoff ==
    /\ callerpc = "idle"
    /\ data' = kickoff_data(cs, data)
    /\ IF kickoff_check(cs) = "ok"
       THEN /\ ex' = [IdleEx EXCEPT !.pc = "start"]
            /\ callerpc' = "kickoff"
            /\ runs' = runs + 1
            /\ ret' = NoRet
       ELSE /\ ret' = [NoRet EXCEPT !.op = "kickoff", !.result = "RuntimeError"]
            /\ UNCHANGED <<ex, callerpc, runs>>
    /\ UNCHANGED <<busy, motor, det, return_position, num_spins, cs, threads,
                   completed, cyc>>
    /\ UNCHANGED kst
    /\ UNCHANGED trace
    /\ UNCHANGED gen
    /\ UNCHANGED setcall

\* kickoff(): self._completion_status = DeviceStatus(device=self), and return
KickoffStore ==
    /\ callerpc = "kickoff"
    /\ cs' = "pending"
    /\ kst' = Append(kst, 0)
    /\ callerpc' = "idle"
    /\ completed' = FALSE
    /\ ret' = [NoRet EXCEPT !.op = "kickoff", !.result = "ok", !.future = "pending"]
    /\ UNCHANGED <<busy, motor, det, return_position, num_spins, data, threads,
                   ex, cyc, runs>>
    /\ UNCHANGED ncalls
    /\ UNCHANGED trace
    /\ UNCHANGED gen
    /\ UNCHANGED setcall

\* -------------------------------------------------------- _spin_sequence
\* the event appended for spin spin_num
event(spin_num) == [seq_num |-> spin_num + 1]

\* a step of the executor that only moves its program counter
ex_at(pc) == [ex EXCEPT !.pc = pc]

\* self.return_position = self.motor.position
E_Start ==
    /\ ex.pc = "start"
    /\ return_position' = motor.position
    /\ ex' = ex_at("taxi")
    /\ ret' = NoRet
    /\ UNCHANGED <<busy, motor, det, num_spins, cs, data, threads, callerpc,
                   completed, cyc, runs>>
    /\ UNCHANGED ncalls
    /\ UNCHANGED kst
    /\ UNCHANGED trace
    /\ UNCHANGED gen
    /\ UNCHANGED setcall

\* for spin_num in range(self.num_spins): self.taxi() enters motor.move
E_Taxi ==
    /\ ex.pc = "taxi"
    /\ motor' = move_begin(motor)
    /\ ex' = [ex EXCEPT !.pc = "taxi_moving", !.target = taxi_position]
    /\ ret' = NoRet
    /\ UNCHANGED <<busy, det, return_position, num_spins, cs, data, threads,
                   callerpc, completed, cyc, runs>>
    /\ UNCHANGED ncalls
    /\ UNCHANGED kst
    /\ UNCHANGED trace
    /\ UNCHANGED gen
    /\ UNCHANGED setcall

\* motor.move returns to taxi()
E_TaxiDone ==
    /\ ex.pc = "taxi_moving"
    /\ motor' = move_end(motor, ex.target)
    /\ ex' = [ex EXCEPT !.pc = "pre_acquire", !.target = 0]
    /\ ret' = NoRet
    /\ UNCHANGED <<busy, det, return_position, num_spins, cs, data, threads,
                   callerpc, completed, cyc, runs>>
    /\ UNCHANGED ncalls
    /\ UNCHANGED kst
    /\ UNCHANGED trace
    /\ UNCHANGED gen
    /\ UNCHANGED setcall

\* det_pre_acquire(self.detector)
E_PreAcquire ==
    /\ ex.pc = "pre_acquire"
    /\ det' = det_pre_acquire(det)
    /\ ex' = ex_at("fly")
    /\ ret' = NoRet
    /\ UNCHANGED <<busy, motor, return_position, num_spins, cs, data, threads,
                   callerpc, completed, cyc, runs>>
    /\ UNCHANGED ncalls
    /\ UNCHANGED kst
    /\ UNCHANGED trace
    /\ UNCHANGED gen
    /\ UNCHANGED setcall

\* self.fly() enters motor.move
E_Fly ==
    /\ ex.pc = "fly"
    /\ motor' = move_begin(motor)
    /\ ex' = [ex EXCEPT !.pc = "fly_moving", !.target = pos_finish]
    /\ ret' = NoRet
    /\ UNCHANGED <<busy, det, return_position, num_spins, cs, data, threads,
                   callerpc, completed, cyc, runs>>
    /\ UNCHANGED ncalls
    /\ UNCHANGED kst
    /\ UNCHANGED trace
    /\ UNCHANGED gen
    /\ UNCHANGED setcall

\* motor.move returns to fly()
E_FlyDone ==
    /\ ex.pc = "fly_moving"
    /\ motor' = move_end(motor, ex.target)
    /\ ex' = [ex EXCEPT !.pc = "post_acquire", !.target = 0]
    /\ ret' = NoRet
    /\ UNCHANGED <<busy, det, return_position, num_spins, cs, data, threads,
                   callerpc, completed, cyc, runs>>
    /\ UNCHANGED ncalls
    /\ UNCHANGED kst
    /\ UNCHANGED trace
    /\ UNCHANGED gen
    /\ UNCHANGED setcall

\* det_post_acquire(self.detector)
E_PostAcquire ==
    /\ ex.pc = "post_acquire"
    /\ det' = det_post_acquire(det)
    /\ ex' = ex_at("wait_write")
    /\ ret' = NoRet
    /\ UNCHANGED <<busy, motor, return_position, num_spins, cs, data, threads,
                   callerpc, completed, cyc, runs>>
    /\ UNCHANGED ncalls
    /\ UNCHANGED kst
    /\ UNCHANGED trace
    /\ UNCHANGED gen
    /\ UNCHANGED setcall

\* the loop body ending in a break: the loop is left after the first append
E_AppendLeavesLoop ==
    /\ ex.pc = "wait_write"
    /\ det.write_file = 0
    /\ data' = Append(data, event(ex.spin_num))
    /\ ex' = [ex EXCEPT !.pc = "set_return", !.spin_num = 0]
    /\ ret' = NoRet
    /\ UNCHANGED <<busy, motor, det, return_position, num_spins, cs, threads,
                   callerpc, completed, cyc, runs>>
    /\ UNCHANGED ncalls
    /\ UNCHANGED kst
    /\ UNCHANGED trace
    /\ UNCHANGED gen
    /\ UNCHANGED setcall

\* while self.detector.hdf1.write_file.value: sleep; then the event is
\* built and appended, and the loop goes on or ends
E_Append ==
    /\ ex.pc = "wait_write"
    /\ det.write_file = 0
    /\ data' = Append(data, event(ex.spin_num))
    /\ ex' = IF ex.spin_num + 1 < num_spins
             THEN [ex EXCEPT !.pc = "taxi", !.spin_num = @ + 1]
             ELSE [ex EXCEPT !.pc = "set_return", !.spin_num = 0]
    /\ ret' = NoRet
    /\ UNCHANGED <<busy, motor, det, return_position, num_spins, cs, threads,
                   callerpc, completed, cyc, runs>>
    /\ UNCHANGED ncalls
    /\ UNCHANGED kst
    /\ UNCHANGED trace
    /\ UNCHANGED gen
    /\ UNCHANGED setcall

\* self.set("Return"): it raises, or starts its thread and returns
E_SetReturn ==
    /\ ex.pc = "set_return"
    /\ IF set_check(ReturnArg, busy) = "ok"
       THEN /\ threads' = start_thread(threads, ReturnArg, FALSE)
            /\ ex' = ex_at("finish")
       ELSE /\ ex' = ex_at("failed")
            /\ UNCHANGED threads
    /\ ret' = NoRet
    /\ UNCHANGED <<busy, motor, det, return_position, num_spins, cs, data,
                   callerpc, completed, cyc, runs>>
    /\ UNCHANGED ncalls
    /\ UNCHANGED kst
    /\ UNCHANGED trace
    /\ UNCHANGED gen
    /\ UNCHANGED setcall

\* _finished(success=True) on the stored status, the last one created
finished(k) == [k EXCEPT ![Len(k)] = @ + 1]

\* self._completion_status._finished(success=True): AttributeError when
\* kickoff() has not stored the status yet
E_Finished ==
    /\ ex.pc = "finish"
    /\ IF cs = "None"
       THEN ex' = ex_at("failed") /\ UNCHANGED <<cs, kst>>
       ELSE ex' = IdleEx /\ cs' = "done" /\ kst' = finished(kst)
    /\ ret' = NoRet
    /\ UNCHANGED <<busy, motor, det, return_position, num_spins, data, threads,
                   callerpc, completed, cyc, runs>>
    /\ UNCHANGED ncalls
    /\ UNCHANGED trace
    /\ UNCHANGED gen
    /\ UNCHANGED setcall

\* the HDF5 plugin has written the file: write_file reads 0 again
DetWriteDone ==
    /\ det.write_file = 1
    /\ det' = det_put(det, "write_file", 0)
    /\ ret' = NoRet
    /\ UNCHANGED <<busy, motor, return_position, num_spins, cs, data, threads,
                   ex, callerpc, completed, cyc, runs>>
    /\ UNCHANGED ncalls
    /\ UNCHANGED kst
    /\ UNCHANGED trace
    /\ UNCHANGED gen
    /\ UNCHANGED setcall

\* ------------------------------------------------------ complete, collect
\* complete(): the check; then the caller polls motor.moving
Complete ==
    /\ callerpc = "idle"
    /\ IF cs = "None"
       THEN /\ ret' = [NoRet EXCEPT !.op = "complete", !.result = "RuntimeError"]
            /\ UNCHANGED callerpc
       ELSE /\ callerpc' = "complete"
            /\ ret' = NoRet
    /\ UNCHANGED <<busy, motor, det, return_position, num_spins, cs, data,
                   threads, ex, completed, cyc, runs>>
    /\ UNCHANGED kst
    /\ UNCHANGED trace
    /\ UNCHANGED gen
    /\ UNCHANGED setcall

\* complete() that marks the stored status finished itself once the motor
\* has stopped
CompleteReturnResolves ==
    /\ callerpc = "complete"
    /\ ~moving
    /\ callerpc' = "idle"
    /\ completed' = TRUE
    /\ cs' = "done"
    /\ kst' = finished(kst)
    /\ ret' = [NoRet EXCEPT !.op = "complete", !.result = "ok",
                             !.future = "done"]
    /\ UNCHANGED <<busy, motor, det, return_position, num_spins, data,
                   threads, ex, cyc, runs>>
    /\ UNCHANGED ncalls
    /\ UNCHANGED trace
    /\ UNCHANGED gen
    /\ UNCHANGED setcall

\* complete(): the motor is seen not moving, self._completion_status is returned
CompleteReturn ==
    /\ callerpc = "complete"
    /\ ~moving
    /\ callerpc' = "idle"
    /\ completed' = TRUE
    /\ ret' = [NoRet EXCEPT !.op = "complete", !.result = "ok", !.future = cs]
    /\ UNCHANGED <<busy, motor, det, return_position, num_spins, cs, data,
                   threads, ex, cyc, runs>>
    /\ UNCHANGED ncalls
    /\ UNCHANGED kst
    /\ UNCHANGED trace
    /\ UNCHANGED gen
    /\ UNCHANGED setcall

\* the check of collect(): what it raises, or "ok"
collect_check(status) ==
    IF status = "None" \/ status # "done" THEN "RuntimeError" ELSE "ok"

\* collect() is called: a generator is returned and none of the body runs
CollectCall ==
    /\ callerpc = "idle"
    /\ gen' = [NoGen EXCEPT !.pc = "created", !.st = cs,
                             !.after_complete = completed]
    /\ ret' = [NoRet EXCEPT !.op = "collect", !.result = "generator"]
    /\ UNCHANGED <<busy, motor, det, return_position, num_spins, cs, data,
                   threads, ex, callerpc, completed, cyc, runs>>
    /\ UNCHANGED kst
    /\ UNCHANGED trace
    /\ UNCHANGED setcall

\* the first next() on the generator: the check, then
\* self._completion_status = None and the first yield from self._data
GenStart ==
    /\ callerpc = "idle"
    /\ gen.pc = "created"
    /\ IF collect_check(cs) = "ok"
       THEN /\ cs' = "None"
            /\ completed' = FALSE
            /\ IF data = <<>>
               THEN /\ gen' = NoGen
                    /\ ret' = [NoRet EXCEPT !.op = "next",
                                            !.result = "StopIteration"]
               ELSE /\ gen' = [NoGen EXCEPT !.pc = "iter", !.buf = data, !.i = 1,
                                             !.after_complete = gen.after_complete]
                    /\ ret' = [NoRet EXCEPT !.op = "next", !.result = "ok",
                                            !.records = <<data[1]>>]
       ELSE /\ gen' = NoGen
            /\ ret' = [NoRet EXCEPT !.op = "next", !.result = "RuntimeError"]
            /\ UNCHANGED <<cs, completed>>
    /\ UNCHANGED <<busy, motor, det, return_position, num_spins, data, threads,
                   ex, callerpc, cyc, runs>>
    /\ UNCHANGED ncalls
    /\ UNCHANGED kst
    /\ UNCHANGED trace
    /\ UNCHANGED setcall

\* a later next(): the next record of the deque the generator iterates, or
\* StopIteration after its last one (records: all it has yielded)
GenNext ==
    /\ callerpc = "idle"
    /\ gen.pc = "iter"
    /\ IF gen.i < Len(gen.buf)
       THEN /\ gen' = [gen EXCEPT !.i = @ + 1]
            /\ ret' = [NoRet EXCEPT !.op = "next", !.result = "ok",
                                    !.records = <<gen.buf[gen.i + 1]>>]
       ELSE /\ gen' = NoGen
            /\ ret' = [NoRet EXCEPT !.op = "next", !.result = "StopIteration",
                                    !.records = gen.buf]
    /\ UNCHANGED <<busy, motor, det, return_position, num_spins, cs, data,
                   threads, ex, callerpc, completed, cyc, runs>>
    /\ UNCHANGED ncalls
    /\ UNCHANGED kst
    /\ UNCHANGED trace
    /\ UNCHANGED setcall

\* ------------------------------------------------------------ behaviours
\* the detector's signals before any acquisition
InitDet == [array_counter |-> 0, enable |-> "Disable", file_write_mode |-> "Single",
            num_capture |-> 1, capture |-> "Done", write_file |-> 0]

\* SpinFlyer.__init__
Init ==
    /\ busy = FALSE
    /\ motor \in [position : InitPositions, movers : {0}]
    /\ det = InitDet
    /\ return_position = motor.position
    /\ num_spins \in NumSpins
    /\ cs = "None"
    /\ data = <<>>
    /\ threads = EmptyBag
    /\ ex = IdleEx
    /\ callerpc = "idle"
    /\ completed = FALSE
    /\ cyc = NoCycle
    /\ ret = NoRet
    /\ ncalls = 0
    /\ runs = 0
    /\ kst = <<>>
    /\ trace = <<>>
    /\ setcall = NoSet
    /\ gen = NoGen

Thread(t) ==
    \/ T_BusyOn(t)
    \/ T_Taxi(t)
    \/ T_PreFly(t)
    \/ T_Fly(t)
    \/ T_Return(t)
    \/ T_MoveDone(t)
    \/ T_PostFly(t)
    \/ T_BusyOff(t)
    \/ T_Finished(t)

Executor ==
    \/ E_Start
    \/ E_Taxi
    \/ E_TaxiDone
    \/ E_PreAcquire
    \/ E_Fly
    \/ E_FlyDone
    \/ E_PostAcquire
    \/ E_Append
    \/ E_SetReturn
    \/ E_Finished

\* one more call by a caller
Call(A) ==
    /\ ncalls < MaxCalls
    /\ ncalls' = ncalls + 1
    /\ A

\* one more call by a caller that starts a thread or an executor run
CallStart(A) ==
    /\ ncalls + 1 < MaxCalls
    /\ ncalls' = ncalls + 2
    /\ A

\* callers use the command interface and the kickoff/complete/collect
\* protocol, from any thread and without waiting for the statuses
Next ==
    \/ \E value \in Tokens : CallStart(SetCall(value)) /\ UNCHANGED <<cyc, trace>>
    \/ SetReturn /\ UNCHANGED trace
    \/ \E t \in Live : Thread(t) /\ UNCHANGED trace
    \/ CallStart(Kickoff)
    \/ KickoffStore
    \/ Executor
    \/ DetWriteDone
    \/ Call(Complete)
    \/ CompleteReturn
    \/ Call(CollectCall)
    \/ GenStart
    \/ GenNext

Spec == Init /\ [][Next]_vars

\* a plan that uses the command interface only and waits for the status of
\* each set() before the next one, as mv() does in example_planB
NextPlan ==
    \/ \E value \in Tokens :
          /\ quiescent
          /\ SetCall(value)
          /\ cyc' = next_cycle(value)
          /\ UNCHANGED <<ncalls, trace>>
    \/ SetReturn /\ UNCHANGED trace
    \/ \E t \in Live : Thread(t) /\ UNCHANGED trace
    \/ DetWriteDone

SpecPlan == Init /\ [][NextPlan]_vars

\* action() raises (a motor.move or a detector put fails): the exception
\* leaves run_and_wait, which has no handler, and the thread ends before
\* busy.put(False) and status._finished; a move under way is abandoned
T_Raise(t) ==
    /\ t.pc \in {"action", "pre_fly", "fly", "moving", "post_fly"}
    /\ threads' = threads (-) SetToBag({t})
    /\ motor' = IF t.pc = "moving" THEN move_end(motor, motor.position)
                 ELSE motor
    /\ ret' = NoRet
    /\ UNCHANGED <<busy, det, return_position, num_spins, cs, data, ex,
                   callerpc, completed, cyc, ncalls, runs>>
    /\ UNCHANGED kst
    /\ UNCHANGED setcall
    /\ UNCHANGED gen

\* the awaited plan, with command actions that can fail
NextFail ==
    \/ \E value \in Tokens :
          /\ quiescent
          /\ SetCall(value)
          /\ UNCHANGED <<cyc, ncalls, trace>>
    \/ SetReturn /\ UNCHANGED trace
    \/ \E t \in Live : Thread(t) /\ UNCHANGED trace
    \/ \E t \in Live : T_Raise(t) /\ UNCHANGED trace
    \/ DetWriteDone

SpecFail == Init /\ [][NextFail]_vars

\* the device command thread t issues in its next step: a put of pre_fly()
\* or post_fly(), or a motor.move or its end
issued(t) ==
    IF t.pc = "action" /\ lower(t.value) = taxi_token
        THEN << <<"move", taxi_position>> >>
    ELSE IF (t.pc = "action" /\ lower(t.value) = fly_token) \/ t.pc = "pre_fly"
        THEN << pre_fly_steps[t.k + 1] >>
    ELSE IF t.pc = "fly"
        THEN << <<"move", pos_finish>> >>
    ELSE IF t.pc = "action" /\ lower(t.value) = return_token
        THEN << <<"move", return_position>> >>
    ELSE IF t.pc = "moving"
        THEN << <<"moved", t.target>> >>
    ELSE IF t.pc = "post_fly"
        THEN << post_fly_steps[t.k + 1] >>
    ELSE <<>>

\* the awaited plan, with the device commands of each set() recorded
NextFly ==
    \/ \E value \in Tokens :
          /\ quiescent
          /\ SetCall(value)
          /\ trace' = <<>>
          /\ UNCHANGED <<cyc, ncalls>>
    \/ SetReturn /\ UNCHANGED trace
    \/ \E t \in Live : Thread(t) /\ trace' = trace \o issued(t)
    \/ DetWriteDone

SpecFly == Init /\ [][NextFly]_vars

\* ================================================================ claims
\* a thread is inside the command action: past busy.put(True), not past
\* busy.put(False)
InAction(t) ==
    t.pc \in {"action", "pre_fly", "fly", "moving", "post_fly", "busy_off"}

\* the controller state a rejected call must leave alone
Controller == <<busy, motor, det, return_position, num_spins, cs, data,
                threads, ex, callerpc, completed>>

ValidExamples == { <<"T","a","x","i">>, <<"F","L","Y">>, <<"R","e","t","u","r","n">> }
InvalidExamples == { <<"S","p","i","n">> }

\* C1: at most one command action (between busy.put(True) and
\* busy.put(False)) is executing at any time on one SpinFlyer.
C1_OneActionAtATime ==
    \A t, u \in Live :
        InAction(t) /\ InAction(u) => t = u /\ CopiesIn(t, threads) = 1

\* C2: set() with a valid token while the busy flag reads true raises
\* RuntimeError and changes nothing: no thread, no status, no motor move,
\* no detector put, busy as it was.
C2_BusyRejects ==
    [][/\ (setcall = NoSet /\ ret'.op = "set"
            /\ ret'.value \in ValidExamples /\ busy)
            => (ret'.result = "RuntimeError" /\ ret'.future = "None"
                /\ UNCHANGED Controller)
       /\ (setcall = NoSet /\ setcall' # NoSet) => ~busy]_vars

\* a valid set() was refused while a command action was running
C2_Witness ==
    /\ ret.op = "set" /\ ret.value \in ValidExamples
    /\ ret.result = "RuntimeError"
    /\ busy
    /\ \E t \in Live : InAction(t)

\* C3: set() with a token that is not taxi, fly or return in any case raises
\* ValueError in every controller state, busy or not, and changes nothing.
C3_InvalidRejects ==
    [][/\ (ret'.op = "set" /\ ret'.value \in InvalidExamples)
            => (ret'.result = "ValueError" /\ ret'.future = "None"
                /\ UNCHANGED Controller)
       /\ setcall' # NoSet => setcall'.value \notin InvalidExamples]_vars

\* an invalid token was refused with ValueError while the busy flag was true
C3_Witness ==
    /\ ret.op = "set" /\ ret.value \in InvalidExamples
    /\ ret.result = "ValueError"
    /\ busy

\* C4: kickoff() while a status is stored raises RuntimeError and leaves the
\* buffer, the stored status and the running background task as they were;
\* no second _spin_sequence is launched.
C4_KickoffRejects ==
    [][(ret'.op = "kickoff" /\ cs # "None")
         => (ret'.result = "RuntimeError" /\ UNCHANGED Controller
             /\ UNCHANGED runs)]_vars

\* kickoff() was refused while a run with records in its buffer was going on
C4_Witness ==
    /\ ret.op = "kickoff" /\ ret.result = "RuntimeError"
    /\ cs = "pending"
    /\ data # <<>>
    /\ ex.pc \notin {"idle", "failed"}

\* C5: collect() fails with RuntimeError whenever no status is stored or the
\* stored one is not done, at the time of the call as at the time its result
\* is first asked for: such a collect() delivers nothing; a collect() that
\* succeeds clears the stored status, and only kickoff() stores one again,
\* so a resolved run is collected at most once.
C5_CollectGate ==
    [][/\ (ret'.op = "next" /\ gen.pc = "created"
            /\ (gen.st # "done" \/ cs # "done"))
            => ret'.result = "RuntimeError"
       /\ (ret'.op = "next" /\ gen.pc = "created"
            /\ ret'.result # "RuntimeError") => cs' = "None"
       /\ (cs = "None" /\ cs' # "None") => ret'.op = "kickoff"]_vars

\* C6: kickoff(), then complete(), then a drained collect() yields exactly
\* num_spins records with seq_num 1, 2, ..., num_spins in order.
C6_CollectAfterComplete ==
    [][(ret'.op = "next" /\ gen.after_complete)
         => /\ ret'.result # "RuntimeError"
            /\ ret'.result = "StopIteration"
                 => ret'.records = [i \in 1..num_spins |-> [seq_num |-> i]]]_vars

\* C7: after the awaited cycle set("Taxi"), set("Fly"), set("Return") the
\* motor is where it was just before the set("Taxi").
C7_RoundTrip ==
    (cyc.stage = 3 /\ quiescent) => motor.position = cyc.start

\* C8: the status complete() returns is already done.
C8_CompleteReturnsResolved ==
    (ret.op = "complete" /\ ret.result = "ok") => ret.future = "done"

\* C9: the busy flag is true when an accepted set() returns, and in every
\* state it is true exactly when an accepted command has not completed yet.
C9_BusyWhileAccepted ==
    /\ (ret.op = "set" /\ ret.result = "ok") => busy
    /\ busy <=> threads # EmptyBag

\* C10: kickoff() is accepted exactly when no status is stored, which is at
\* first and after a collect() that succeeded; it is refused for a run that
\* is done but not collected; an accepted kickoff() empties the buffer,
\* launches _spin_sequence and returns a new status that is not done.
C10_KickoffReusable ==
    [][/\ ret'.op = "kickoff"
            => (ret'.result = "RuntimeError" <=> cs # "None")
       /\ (callerpc = "idle" /\ callerpc' = "kickoff")
            => (cs = "None" /\ data' = <<>> /\ ex'.pc = "start")
       /\ (callerpc = "kickoff" /\ callerpc' = "idle")
            => (ret'.op = "kickoff" /\ ret'.result = "ok"
                /\ ret'.future = "pending" /\ cs' = "pending"
                /\ kst' = Append(kst, 0))
       /\ (cs # "None" /\ cs' = "None")
            => (ret'.op = "next" /\ gen.pc = "created"
                /\ ret'.result # "RuntimeError")]_vars

\* a second kickoff() was accepted after the first run was resolved and
\* collected: it has returned a new status that is not done, beside the
\* resolved one of the first run, and the buffer of the new run is empty
C10_Witness ==
    /\ ret.op = "kickoff" /\ ret.result = "ok" /\ ret.future = "pending"
    /\ runs = 2
    /\ cs = "pending"
    /\ kst = <<1, 0>>
    /\ data = <<>>

\* _spin_sequence is in progress: launched and neither returned nor dead
ExRunning == ex.pc \notin {"idle", "failed"}

\* C11: every accepted kickoff() is eventually followed by the resolution of
\* its status, whatever set() calls the caller makes during the run. As a
\* condition on finite runs: once kickoff() has returned and _spin_sequence
\* has ended, the stored status is resolved (nothing resolves it later).
C11_RunEndsResolved ==
    (callerpc # "kickoff" /\ ~ExRunning /\ cs # "None") => cs = "done"

\* statuses created by kickoff() and not resolved yet
KickoffOutstanding == Cardinality({i \in DOMAIN kst : kst[i] = 0})

\* statuses created by set() and not resolved yet: one per live thread
SetOutstanding == BagCardinality(threads)

\* C12 as stated: at most one status created by kickoff() or by set() is
\* outstanding in any reachable state.
C12_OneOutstanding == KickoffOutstanding + SetOutstanding <= 1

\* C12 amended: at most one status created by kickoff() is outstanding in
\* any reachable state; statuses created by set() can be outstanding beside
\* it, as the one of the executor's own set("Return") is.
C12_OneKickoffOutstanding == KickoffOutstanding <= 1

\* the executor has issued set("Return") and has not resolved the stored
\* status yet: the kickoff status and a set() status are both outstanding
C12_Witness ==
    /\ ex.pc = "finish"
    /\ cs = "pending"
    /\ KickoffOutstanding = 1
    /\ \E t \in Live : lower(t.value) = return_token

\* C13: every status goes from unresolved to resolved at most once: no
\* status of kickoff() gets a second _finished or loses the one it has, and
\* the status of a set() is resolved in the one step that ends its thread.
C13_ResolvedOnce ==
    [][/\ Len(kst') >= Len(kst)
       /\ \A i \in DOMAIN kst : kst'[i] >= kst[i] /\ kst'[i] <= 1
       /\ BagCardinality(threads') < BagCardinality(threads)
            => \E t \in Live : t.pc = "finish" /\ threads' = threads (-) SetToBag({t})]_vars

\* two runs were kicked off and each one's status was resolved, the first
\* one before the second was created
C13_Witness ==
    /\ Len(kst) = 2
    /\ kst[1] = 1 /\ kst[2] = 1
    /\ cs = "done"

\* C14: kickoff() has completed its initialisation, the storing of the new
\* status included, before _spin_sequence takes its first step, and
\* _spin_sequence never reaches its _finished with no status stored.
C14_InitBeforeExecutor ==
    /\ callerpc = "kickoff" => ex.pc = "start"
    /\ ex.pc = "finish" => cs # "None"

\* C15: at most one background task is active at a time: no thread of a
\* command other than the executor's own "Return" is alive during a run of
\* _spin_sequence, and no two set() threads are alive together.
C15_OneBackgroundTask ==
    /\ ExRunning => \A t \in Live : lower(t.value) = return_token
    /\ BagCardinality(threads) <= 1

\* C16: the step that resolves the kickoff status finds the Return move
\* finished: no thread of set("Return") is alive, the motor is at rest and
\* at the return position.
C16_ResolvedAfterReturn ==
    [][(cs = "pending" /\ cs' = "done")
         => /\ threads' = EmptyBag
            /\ ~moving'
            /\ motor'.position = return_position']_vars

\* the records of a run of n spins
run_records(n) == [i \in 1..n |-> event(i - 1)]

\* C17: when the stored status becomes resolved the buffer holds exactly
\* the num_spins records of the run, and while it stays resolved the buffer
\* does not change: every append of a run precedes the resolution.
C17_AppendsBeforeResolved ==
    [][/\ cs' = "done" => data' = run_records(num_spins')
       /\ cs = "done" => data' = data]_vars

\* a run of two spins is resolved, with both records in the buffer
C17_Witness ==
    /\ cs = "done"
    /\ num_spins = 2
    /\ Len(data) = 2
    /\ ex.pc = "idle"

\* C20: no set() call (the caller's or the executor's) and no step of a
\* command thread changes the return position, the buffer or any kickoff
\* status; the return position changes only in the first step of
\* _spin_sequence, to the motor's position then; and a "Return" move is
\* started towards the return position of that moment.
C20_ReturnPositionFrame ==
    [][/\ (ret'.op = "set" \/ threads' # threads)
            => UNCHANGED <<return_position, data, cs, kst>>
       /\ return_position' # return_position
            => (ex.pc = "start" /\ return_position' = motor.position)
       /\ \A t \in BagToSet(threads') :
             (/\ t.pc = "moving" /\ lower(t.value) = return_token
              /\ CopiesIn(t, threads') > CopiesIn(t, threads)
              /\ setcall' = setcall)
                => t.target = return_position]_vars

\* a "Return" thread is moving the motor to the position a kickoff
\* recorded, which is not the one recorded at construction
C20_Witness ==
    /\ return_position \notin InitPositions
    /\ runs >= 1
    /\ \E t \in Live : /\ t.pc = "moving"
                        /\ lower(t.value) = return_token
                        /\ t.target = return_position

\* C18: the busy flag is cleared on every exit path of a command action,
\* the failing ones included: whenever no command thread is alive the busy
\* flag is false.
C18_BusyClearedOnExit == threads = EmptyBag => ~busy

\* the device commands of one "Fly" in the order the claim gives
FlyOrder ==
    << <<"array_counter", 0>>, <<"enable", "Enable">>,
       <<"file_write_mode", "Capture">>, <<"num_capture", 10000>>,
       <<"capture", "Capture">>,
       <<"move", pos_finish>>, <<"moved", pos_finish>>,
       <<"capture", "Done">>, <<"write_file", 1>>,
       <<"file_write_mode", "Single">>, <<"num_capture", 1>>,
       <<"enable", "Disable">> >>

\* s is an initial part of q
IsPrefix(s, q) == Len(s) <= Len(q) /\ s = SubSeq(q, 1, Len(s))

\* C19: a "Fly" command resets the counter, enables the plugin, sets the
\* mode to Capture, sets the maximum frame count and starts the capture, in
\* this order, before the move to pos_finish, and after the end of the move
\* stops the capture, writes the file, sets the mode to Single, sets the
\* frame count to 1 and disables the plugin, in this order.
C19_FlyOrder ==
    \A t \in Live :
        lower(t.value) = fly_token
            => /\ IsPrefix(trace, FlyOrder)
               /\ t.pc \in {"start", "action"} => trace = <<>>
               /\ t.pc = "pre_fly" => Len(trace) = t.k
               /\ t.pc = "fly" => Len(trace) = Len(pre_fly_steps)
               /\ t.pc = "moving" => Len(trace) = Len(pre_fly_steps) + 1
               /\ t.pc = "post_fly" => Len(trace) = Len(pre_fly_steps) + 2 + t.k
               /\ t.pc \in {"busy_off", "finish"} => trace = FlyOrder

\* a "Fly" command has completed its action, the busy flag not yet cleared
C19_Witness ==
    /\ \E t \in Live : lower(t.value) = fly_token /\ t.pc = "busy_off"
    /\ trace = FlyOrder
    /\ motor.position = pos_finish
    /\ busy

====
